---- MODULE Spec2Model ----
(***************************************************************************)
(* Currency registry and player wallets of src/index.js (the second,       *)
(* authoritative revision, lines 213-444).                                  *)
(*                                                                         *)
(* JavaScript values are modelled as integers:                             *)
(*   -MaxNum..MaxNum   the finite integer Numbers (Number.isInteger true)  *)
(*   PosInf, NegInf    Infinity and -Infinity, what an addition gives when *)
(*                     the sum leaves the finite range of a double         *)
(*   NotInteger        any value Number.isInteger rejects (1.5, "5", NaN)  *)
(*   ObjectPrototype   the object Object.prototype                         *)
(* A wallet is a plain object ({}): a function from its own property names *)
(* to values, read and written with the semantics of a plain object, whose *)
(* prototype is Object.prototype.                                          *)
(***************************************************************************)
EXTENDS Integers, Sequences, FiniteSets, TLC

VARIABLES currencies, joined, wallet, last, calls, emitted, replicated, held

vars == <<currencies, joined, wallet, last, calls, emitted, replicated, held>>

\* Largest finite Number of the model: it stands for Number.MAX_VALUE, which
\* Number.isInteger accepts and beyond which a sum is an infinity.
MaxNum == 3

PosInf == MaxNum + 1
NegInf == 0 - PosInf
NotInteger == MaxNum + 2
ObjectPrototype == MaxNum + 3

SYNC_TYPE_NONE == 0
SYNC_TYPE_EVERYONE == 1
SYNC_TYPE_PLAYER == 2

Players == {"p1", "p2"}
\* The players whose session begins under Spec. The wallet functions are
\* called on joined players only: a player has no _wallet before playerJoin.
Joining == {"p1"}

\* A non-string value passed where a string is expected (typeof x !== "string").
NonString == "#42"
ProtoKey == "__proto__"
HasOwnKey == "hasOwnProperty"
\* Property names: an ordinary one and the two that meet Object.prototype.
Keys == {"gold", ProtoKey, HasOwnKey}
NameArgs == {"Gold", ""}
\* MaxNum (at least 3) is an integer above SYNC_TYPE_PLAYER.
SyncTypeArgs == {0 - 1, 0, 1, 2, MaxNum, NotInteger}
\* The arguments of addCurrency: every combination for the ordinary key and
\* the unusable keys, and valid definitions of the two special keys.
DefineArgs ==
    ({"gold", ""} \X NameArgs \X SyncTypeArgs)
        \cup {<<NonString, "Gold", 1>>, <<"gold", NonString, 1>>}
        \cup ({ProtoKey, HasOwnKey} \X {"Gold"} \X {1, 2})
AmountArgs == {0 - MaxNum, 0, MaxNum, NotInteger}

\* The argument of setWallet: a plain object with these own enumerable
\* properties, or a value that is no plain object (null, an array, a string).
WalletValueArgs == {MaxNum, NotInteger}
WalletArgs ==
    {[isObject |-> FALSE, props |-> [k \in {} |-> 0]]} \cup
    {[isObject |-> TRUE, props |-> f] :
        f \in UNION {[S -> WalletValueArgs] : S \in SUBSET Keys}}

EmptyObject == [k \in {} |-> 0]

\* Number.isInteger(v)
IsInteger(v) == v \in (0 - MaxNum)..MaxNum

\* typeof s !== "string" || s.length < 1
NotNonEmptyString(s) == s = NonString \/ s = ""

\* a + b on Numbers, b finite: the sum of doubles overflows to an infinity.
NumAdd(a, b) ==
    IF a = PosInf \/ a = NegInf THEN a
    ELSE IF a + b > MaxNum THEN PosInf
    ELSE IF a + b < 0 - MaxNum THEN NegInf
    ELSE a + b

(***************************************************************************)
(* Plain objects                                                           *)
(***************************************************************************)
\* obj[key] = value on a plain object: "__proto__" is the accessor of
\* Object.prototype, whose setter ignores a value that is no object.
PropertySet(obj, key, value) ==
    IF key = ProtoKey THEN obj
    ELSE [k \in (DOMAIN obj) \cup {key} |-> IF k = key THEN value ELSE obj[k]]

\* obj[key] on a plain object, for the keys the wallet code reads.
PropertyGet(obj, key) ==
    IF key \in DOMAIN obj THEN obj[key]
    ELSE IF key = ProtoKey THEN ObjectPrototype
    ELSE NotInteger

\* obj.hasOwnProperty is the function of Object.prototype unless an own
\* property of that name shadows it.
HasOwnPropertyCallable(obj) == HasOwnKey \notin DOMAIN obj

\* obj.hasOwnProperty(key), when callable
HasOwnProperty(obj, key) == key \in DOMAIN obj

(***************************************************************************)
(* CurrencyScript                                                          *)
(***************************************************************************)
hasCurrency(key) == key \in DOMAIN currencies

NoError == "none"

\* Mutant of AddCurrencyError: the duplicate check is missing.
AddCurrencyError_NoDuplicateCheck(key, name, syncType) ==
    IF NotNonEmptyString(key) THEN "key is not a string/is an empty string"
    ELSE IF NotNonEmptyString(name) THEN "name is not a string/is an empty string"
    ELSE IF ~IsInteger(syncType) THEN "syncType is not an integer"
    ELSE IF syncType < SYNC_TYPE_NONE \/ syncType > SYNC_TYPE_PLAYER
         THEN "invalid syncType value"
    ELSE NoError

\* Mutant of AddCurrencyError: the range of syncType is checked before the
\* duplicate check.
AddCurrencyError_RangeFirst(key, name, syncType) ==
    IF NotNonEmptyString(key) THEN "key is not a string/is an empty string"
    ELSE IF NotNonEmptyString(name) THEN "name is not a string/is an empty string"
    ELSE IF ~IsInteger(syncType) THEN "syncType is not an integer"
    ELSE IF syncType < SYNC_TYPE_NONE \/ syncType > SYNC_TYPE_PLAYER
         THEN "invalid syncType value"
    ELSE IF hasCurrency(key) THEN "a currency with the specified key already exists"
    ELSE NoError

\* The checks of addCurrency, in the order of the code.
AddCurrencyError(key, name, syncType) ==
    IF NotNonEmptyString(key) THEN "key is not a string/is an empty string"
    ELSE IF NotNonEmptyString(name) THEN "name is not a string/is an empty string"
    ELSE IF ~IsInteger(syncType) THEN "syncType is not an integer"
    ELSE IF hasCurrency(key) THEN "a currency with the specified key already exists"
    ELSE IF syncType < SYNC_TYPE_NONE \/ syncType > SYNC_TYPE_PLAYER
         THEN "invalid syncType value"
    ELSE NoError

\* Mutant of SyncKeyFor: the prefix is missing.
SyncKeyFor_NoPrefix(key) == key

\* `currency_${key}`
SyncKeyFor(key) == "currency_" \o key

NewCurrency(key, name, syncType) ==
    [name |-> name, syncType |-> syncType, syncKey |-> SyncKeyFor(key)]

addCurrency(key, name, syncType) ==
    LET err == AddCurrencyError(key, name, syncType)
        currency == NewCurrency(key, name, syncType)
    IN  /\ currencies' =
              IF err = NoError
              THEN [k \in (DOMAIN currencies) \cup {key} |->
                       IF k = key THEN currency ELSE currencies[k]]
              ELSE currencies
        /\ emitted' =
              IF err = NoError
              THEN << [event |-> "currencyDefined",
                       args |-> <<key, name, syncType, currency.syncKey>>] >>
              ELSE << >>
        /\ calls' = << >>
        /\ last' = IF err = NoError
                   THEN [op |-> "addCurrency", key |-> key, name |-> name,
                         syncType |-> syncType, result |-> "return",
                         error |-> NoError, returned |-> currency]
                   ELSE [op |-> "addCurrency", key |-> key, name |-> name,
                         syncType |-> syncType, result |-> "throw",
                         error |-> err]
        /\ UNCHANGED <<joined, wallet>>

getCurrencyName(key) ==
    IF key \in DOMAIN currencies THEN currencies[key].name ELSE "Invalid Currency"

getCurrencySyncType(key) ==
    IF key \in DOMAIN currencies THEN currencies[key].syncType ELSE SYNC_TYPE_NONE

NullValue == "null"
getCurrencySyncKey(key) ==
    IF key \in DOMAIN currencies THEN currencies[key].syncKey ELSE NullValue

(***************************************************************************)
(* Player functions                                                        *)
(***************************************************************************)
getCurrency(key) == currencies[key]

\* The order in which for...in visits the own properties of an object.
KeyOrder == <<"gold", ProtoKey, HasOwnKey>>
ForIn(obj) == SelectSeq(KeyOrder, LAMBDA k : k \in DOMAIN obj)

\* Mutant of SyncCalls: the calls are issued on another player's entity.
SyncCalls_OtherPlayer(p, currency, value) ==
    IF currency.syncType = SYNC_TYPE_NONE THEN << >>
    ELSE << [fn |-> "setVariable", player |-> CHOOSE q \in Players : q # p,
             key |-> currency.syncKey, value |-> value] >>

\* The switch on currency.syncType: the replication calls for one value.
SyncCalls(p, currency, value) ==
    IF currency.syncType = SYNC_TYPE_EVERYONE
    THEN << [fn |-> "setVariable", player |-> p,
             key |-> currency.syncKey, value |-> value] >>
    ELSE IF currency.syncType = SYNC_TYPE_PLAYER
    THEN << [fn |-> "setOwnVariable", player |-> p,
             key |-> currency.syncKey, value |-> value] >>
    ELSE << >>

\* The first loop of setWallet: skip invalid newWallet items.
RECURSIVE Replacement(_, _, _)
Replacement(newWallet, order, replacement) ==
    IF order = << >> THEN replacement
    ELSE LET key == Head(order)
         IN  Replacement(newWallet, Tail(order),
                 IF ~hasCurrency(key) \/ ~IsInteger(newWallet[key])
                 THEN replacement
                 ELSE PropertySet(replacement, key, newWallet[key]))

\* The second loop of setWallet: update shared data.
RECURSIVE WalletSyncCalls(_, _, _)
WalletSyncCalls(p, replacement, order) ==
    IF order = << >> THEN << >>
    ELSE LET key == Head(order)
         IN  SyncCalls(p, getCurrency(key), replacement[key])
                 \o WalletSyncCalls(p, replacement, Tail(order))

\* Mutant of SetWalletRejects: the argument is not checked.
SetWalletRejects_Nothing(newWallet) == FALSE

\* Object.prototype.toString.call(newWallet) !== "[object Object]"
SetWalletRejects(newWallet) == ~newWallet.isObject

setWallet(p, newWallet) ==
    /\ p \in joined
    /\ IF SetWalletRejects(newWallet)
       THEN /\ last' = [op |-> "setWallet", player |-> p, newWallet |-> newWallet,
                        result |-> "false"]
            /\ calls' = << >>
            /\ emitted' = << >>
            /\ UNCHANGED wallet
       ELSE LET oldWallet == wallet[p]
                replacement ==
                    Replacement(newWallet.props, ForIn(newWallet.props), EmptyObject)
            IN  /\ wallet' = [wallet EXCEPT ![p] = replacement]
                /\ calls' = WalletSyncCalls(p, replacement, ForIn(replacement))
                /\ emitted' = << [event |-> "walletReplaced",
                                  args |-> <<p, oldWallet, replacement>>] >>
                /\ last' = [op |-> "setWallet", player |-> p,
                            newWallet |-> newWallet, result |-> "true"]
    /\ UNCHANGED <<currencies, joined>>

\* mp.Player.prototype.getCurrency, when this._wallet.hasOwnProperty is callable
Player_getCurrency(w, currencyKey) ==
    IF HasOwnProperty(w, currencyKey) THEN w[currencyKey] ELSE 0

\* A call of mp.Player.prototype.getCurrency: it returns the balance, or
\* throws a TypeError when this._wallet.hasOwnProperty is no function.
callGetCurrency(p, currencyKey) ==
    /\ p \in joined
    /\ last' = IF HasOwnPropertyCallable(wallet[p])
               THEN [op |-> "getCurrency", player |-> p, key |-> currencyKey,
                     result |-> "return",
                     returned |-> Player_getCurrency(wallet[p], currencyKey)]
               ELSE [op |-> "getCurrency", player |-> p, key |-> currencyKey,
                     result |-> "TypeError"]
    /\ calls' = << >>
    /\ emitted' = << >>
    /\ UNCHANGED <<currencies, joined, wallet>>

\* Mutant of SetCurrencyRejects: the amount is not checked.
SetCurrencyRejects_AnyAmount(currencyKey, newAmount) == ~hasCurrency(currencyKey)

\* if (currency == null || !Number.isInteger(newAmount)) return false;
SetCurrencyRejects(currencyKey, newAmount) ==
    ~hasCurrency(currencyKey) \/ ~IsInteger(newAmount)

\* Mutant of SetCurrencyReason: a short tag instead of the function's name.
SetCurrencyReason_Short == "set"

\* The last argument of the currencyUpdated event of setCurrency.
SetCurrencyReason == "setCurrency"

setCurrency(p, currencyKey, newAmount) ==
    /\ p \in joined
    /\ IF SetCurrencyRejects(currencyKey, newAmount)
       THEN /\ last' = [op |-> "setCurrency", player |-> p, key |-> currencyKey,
                        amount |-> newAmount, result |-> "false"]
            /\ calls' = << >>
            /\ emitted' = << >>
            /\ UNCHANGED wallet
       ELSE IF ~HasOwnPropertyCallable(wallet[p])
       THEN \* this.getCurrency(currencyKey) throws a TypeError
            /\ last' = [op |-> "setCurrency", player |-> p, key |-> currencyKey,
                        amount |-> newAmount, result |-> "TypeError"]
            /\ calls' = << >>
            /\ emitted' = << >>
            /\ UNCHANGED wallet
       ELSE LET currency == getCurrency(currencyKey)
                oldAmount == Player_getCurrency(wallet[p], currencyKey)
            IN  /\ wallet' = [wallet EXCEPT
                                 ![p] = PropertySet(@, currencyKey, newAmount)]
                /\ calls' = SyncCalls(p, currency, newAmount)
                /\ emitted' = << [event |-> "currencyUpdated",
                                  args |-> <<p, currencyKey, oldAmount, newAmount,
                                             SetCurrencyReason>>] >>
                /\ last' = [op |-> "setCurrency", player |-> p, key |-> currencyKey,
                            amount |-> newAmount, result |-> "true"]
    /\ UNCHANGED <<currencies, joined>>

\* The if/else of changeCurrency that updates this._wallet[currencyKey].
ChangedWallet(w, currencyKey, amount) ==
    IF HasOwnProperty(w, currencyKey)
    THEN PropertySet(w, currencyKey, NumAdd(PropertyGet(w, currencyKey), amount))
    ELSE PropertySet(w, currencyKey, amount)

\* if (currency == null || !Number.isInteger(amount)) return false;
ChangeCurrencyRejects(currencyKey, amount) ==
    ~hasCurrency(currencyKey) \/ ~IsInteger(amount)

\* The last argument of the currencyUpdated event of changeCurrency.
ChangeCurrencyReason == "changeCurrency"

changeCurrency(p, currencyKey, amount) ==
    /\ p \in joined
    /\ IF ChangeCurrencyRejects(currencyKey, amount)
       THEN /\ last' = [op |-> "changeCurrency", player |-> p, key |-> currencyKey,
                        amount |-> amount, result |-> "false"]
            /\ calls' = << >>
            /\ emitted' = << >>
            /\ UNCHANGED wallet
       ELSE IF ~HasOwnPropertyCallable(wallet[p])
       THEN \* this.getCurrency(currencyKey) throws a TypeError
            /\ last' = [op |-> "changeCurrency", player |-> p, key |-> currencyKey,
                        amount |-> amount, result |-> "TypeError"]
            /\ calls' = << >>
            /\ emitted' = << >>
            /\ UNCHANGED wallet
       ELSE LET currency == getCurrency(currencyKey)
                oldAmount == Player_getCurrency(wallet[p], currencyKey)
                w == ChangedWallet(wallet[p], currencyKey, amount)
            IN  /\ wallet' = [wallet EXCEPT ![p] = w]
                /\ calls' = SyncCalls(p, currency, PropertyGet(w, currencyKey))
                /\ emitted' = << [event |-> "currencyUpdated",
                                  args |-> <<p, currencyKey, oldAmount,
                                             PropertyGet(w, currencyKey),
                                             ChangeCurrencyReason>>] >>
                /\ last' = [op |-> "changeCurrency", player |-> p, key |-> currencyKey,
                            amount |-> amount, result |-> "true",
                            hadKey |-> HasOwnProperty(wallet[p], currencyKey)]
    /\ UNCHANGED <<currencies, joined>>

(***************************************************************************)
(* RAGEMP events                                                           *)
(***************************************************************************)
playerJoin(p) ==
    /\ p \notin joined
    /\ joined' = joined \cup {p}
    /\ wallet' = [wallet EXCEPT ![p] = EmptyObject]
    /\ last' = [op |-> "playerJoin", player |-> p, result |-> "return"]
    /\ calls' = << >>
    /\ emitted' = << >>
    /\ UNCHANGED currencies

(***************************************************************************)
(* What the calls and events of a step leave behind outside the script:    *)
(* the entity data of each player (RAGEMP keeps the last value given to    *)
(* setVariable/setOwnVariable under each name) and the object a listener   *)
(* of walletReplaced received as oldWallet.                                *)
(***************************************************************************)
\* entity data after player.setVariable(name, value)
SetData(data, name, value) ==
    [n \in (DOMAIN data) \cup {name} |-> IF n = name THEN value ELSE data[n]]

\* The entity data of every player after the replication calls cs, in order.
RECURSIVE Deliver(_, _)
Deliver(data, cs) ==
    IF cs = << >> THEN data
    ELSE LET c == Head(cs)
         IN  Deliver([data EXCEPT ![c.player] = SetData(@, c.key, c.value)],
                     Tail(cs))

\* No walletReplaced event has been delivered.
NoSnapshot == [delivered |-> FALSE]

\* Mutant of OldWalletStillAttached: setWallet filters the wallet in place.
OldWalletStillAttached_InPlace == TRUE

\* Whether the object delivered as oldWallet is still the player's _wallet
\* after setWallet: replacement is a new object ({}) and replaces it.
OldWalletStillAttached == FALSE

\* The object last delivered as oldWallet, after a step: a successful
\* setWallet delivers the object that was the wallet; a later write to the
\* player's wallet writes to it only while it is still the player's _wallet.
HeldAfter(h, e, w) ==
    IF e # << >> /\ e[1].event = "walletReplaced"
    THEN [delivered |-> TRUE, player |-> e[1].args[1],
          contents |-> e[1].args[2], attached |-> OldWalletStillAttached]
    ELSE IF h.delivered /\ h.attached
    THEN [h EXCEPT !.contents = w[h.player]]
    ELSE h

\* The calls and events of the step are delivered.
Observed ==
    /\ replicated' = Deliver(replicated, calls')
    /\ held' = HeldAfter(held, emitted', wallet')

\* The step is taken without keeping what it leaves outside the script.
Unobserved == UNCHANGED <<replicated, held>>

Init ==
    /\ currencies = EmptyObject
    /\ joined = {}
    /\ wallet = [p \in Players |-> EmptyObject]
    /\ last = [op |-> "init", result |-> "return"]
    /\ calls = << >>
    /\ emitted = << >>
    /\ replicated = [p \in Players |-> EmptyObject]
    /\ held = NoSnapshot

Next ==
    \/ \E a \in DefineArgs : addCurrency(a[1], a[2], a[3]) /\ Unobserved
    \/ \E p \in Joining : playerJoin(p) /\ Unobserved
    \/ \E p \in Players, newWallet \in WalletArgs :
           setWallet(p, newWallet) /\ Unobserved
    \/ \E p \in Players, key \in Keys, amount \in AmountArgs :
           setCurrency(p, key, amount) /\ Unobserved
    \/ \E p \in Players, key \in Keys, amount \in AmountArgs :
           changeCurrency(p, key, amount) /\ Unobserved
    \/ \E p \in Players, key \in Keys : callGetCurrency(p, key) /\ Unobserved

Spec == Init /\ [][Next]_vars

(***************************************************************************)
(* Two players, fewer arguments, and the entity data and the delivered     *)
(* oldWallet kept along.                                                   *)
(***************************************************************************)
ObservedDefineArgs ==
    {<<"gold", "Gold", 1>>, <<"gold", "Gold", NotInteger>>, <<ProtoKey, "Gold", 2>>}
ObservedKeys == {"gold", ProtoKey}
ObservedAmountArgs == {0 - MaxNum, NotInteger}
ObservedWalletArgs ==
    {[isObject |-> FALSE, props |-> EmptyObject],
     [isObject |-> TRUE, props |-> EmptyObject],
     [isObject |-> TRUE, props |-> [k \in {"gold"} |-> MaxNum]],
     [isObject |-> TRUE,
      props |-> [k \in ObservedKeys |-> IF k = "gold" THEN NotInteger ELSE MaxNum]]}

NextObserved ==
    \/ \E a \in ObservedDefineArgs : addCurrency(a[1], a[2], a[3]) /\ Observed
    \/ \E p \in Players : playerJoin(p) /\ Observed
    \/ \E p \in Players, newWallet \in ObservedWalletArgs :
           setWallet(p, newWallet) /\ Observed
    \/ \E p \in Players, key \in ObservedKeys, amount \in ObservedAmountArgs :
           setCurrency(p, key, amount) /\ Observed
    \/ \E p \in Players, key \in ObservedKeys, amount \in ObservedAmountArgs :
           changeCurrency(p, key, amount) /\ Observed
    \/ \E p \in Players, key \in ObservedKeys : callGetCurrency(p, key) /\ Observed

SpecObserved == Init /\ [][NextObserved]_vars

(***************************************************************************)
(* Claims                                                                  *)
(***************************************************************************)
\* The wallet operations.
WalletOps == {"setWallet", "setCurrency", "changeCurrency"}

\* getBalance(key) on wallet w returns v: the call returns, and returns v.
GetBalanceReturns(w, key, v) ==
    HasOwnPropertyCallable(w) /\ Player_getCurrency(w, key) = v

\* C1: every key present in every player's wallet is a registered currency
\* and its stored value is an integer.
C1_WalletEntriesRegisteredIntegers ==
    \A p \in Players : \A k \in DOMAIN wallet[p] :
        hasCurrency(k) /\ IsInteger(wallet[p][k])

\* C2: addCurrency with a non-empty unregistered key, a non-empty name and a
\* syncType among the three recognized values returns the stored record;
\* afterwards the key is registered with that name, syncType and the syncKey
\* "currency_" + key, and exactly one currencyDefined event carrying
\* (key, name, syncType, syncKey) was emitted by the call.
C2_DefineSucceeds ==
    [][\A a \in DefineArgs :
        LET key == a[1]
            name == a[2]
            syncType == a[3]
        IN  (/\ last'.op = "addCurrency"
             /\ last'.key = key /\ last'.name = name /\ last'.syncType = syncType
             /\ key \notin {"", NonString}
             /\ name \notin {"", NonString}
             /\ syncType \in {0, 1, 2}
             /\ ~hasCurrency(key))
            => (/\ last'.result = "return"
                /\ hasCurrency(key)'
                /\ last'.returned = getCurrency(key)'
                /\ getCurrencySyncType(key)' = syncType
                /\ getCurrencyName(key)' = name
                /\ getCurrencySyncKey(key)' = "currency_" \o key
                /\ emitted' = << [event |-> "currencyDefined",
                                  args |-> <<key, name, syncType,
                                             "currency_" \o key>>] >>)]_vars

\* C2 witness: "gold" has just been defined as a Broadcast currency.
C2_Witness ==
    /\ last.op = "addCurrency" /\ last.result = "return"
    /\ last.key = "gold" /\ last.syncType = SYNC_TYPE_EVERYONE
    /\ getCurrencySyncKey("gold") = "currency_gold"
    /\ Len(emitted) = 1

\* C3: addCurrency with a key that is already registered fails whatever the
\* other arguments are, leaves the registry as it was and emits nothing.
C3_RedefineRejected ==
    [][(last'.op = "addCurrency" /\ hasCurrency(last'.key))
       => (/\ last'.result = "throw"
           /\ currencies' = currencies
           /\ emitted' = << >>)]_vars

\* C3 witness: a second definition of "gold", with valid other arguments,
\* has just been rejected.
C3_Witness ==
    /\ last.op = "addCurrency" /\ last.result = "throw"
    /\ last.key = "gold" /\ hasCurrency("gold")
    /\ last.name = "Gold" /\ last.syncType \in {0, 1, 2}
    /\ getCurrencySyncType("gold") # last.syncType

\* What kind of failure an error message of addCurrency reports.
ErrorKind(message) ==
    IF message = "a currency with the specified key already exists"
    THEN "AlreadyExists" ELSE "InvalidArgument"

\* C4 as claimed: addCurrency fails with an InvalidArgument error when key is
\* empty, name is empty or syncType is not one of the three recognized
\* values, and with an AlreadyExists error when (the arguments being valid)
\* the key is already registered; a failing call leaves the registry
\* unchanged and emits nothing.
C4_DefineFailureKinds ==
    [][last'.op = "addCurrency" =>
        /\ (last'.key \in {"", NonString} \/ last'.name \in {"", NonString}
                \/ last'.syncType \notin {0, 1, 2})
           => (last'.result = "throw" /\ ErrorKind(last'.error) = "InvalidArgument")
        /\ (/\ last'.key \notin {"", NonString} /\ last'.name \notin {"", NonString}
            /\ last'.syncType \in {0, 1, 2} /\ hasCurrency(last'.key))
           => (last'.result = "throw" /\ ErrorKind(last'.error) = "AlreadyExists")
        /\ last'.result = "throw" => (currencies' = currencies /\ emitted' = << >>)
      ]_vars

\* C4 as amended: addCurrency fails with an InvalidArgument error when key is
\* empty, name is empty or syncType is not an integer; otherwise with an
\* AlreadyExists error when the key is already registered, also when the
\* integer syncType is out of range; otherwise with an InvalidArgument error
\* when the integer syncType is outside 0..2; a failing call leaves the
\* registry unchanged and emits nothing.
C4_DefineFailureKindsInCodeOrder ==
    [][last'.op = "addCurrency" =>
        LET invalid == \/ last'.key \in {"", NonString}
                       \/ last'.name \in {"", NonString}
                       \/ ~IsInteger(last'.syncType)
        IN  /\ invalid
               => (last'.result = "throw"
                   /\ ErrorKind(last'.error) = "InvalidArgument")
            /\ (~invalid /\ hasCurrency(last'.key))
               => (last'.result = "throw"
                   /\ ErrorKind(last'.error) = "AlreadyExists")
            /\ (~invalid /\ ~hasCurrency(last'.key)
                    /\ last'.syncType \notin {0, 1, 2})
               => (last'.result = "throw"
                   /\ ErrorKind(last'.error) = "InvalidArgument")
            /\ last'.result = "throw"
               => (currencies' = currencies /\ emitted' = << >>)
      ]_vars

\* C4 witness: a definition of the registered key "gold" with an integer
\* syncType out of range has just failed.
C4_Witness ==
    /\ last.op = "addCurrency" /\ last.result = "throw"
    /\ last.key = "gold" /\ hasCurrency("gold")
    /\ last.name = "Gold" /\ last.syncType = MaxNum

\* The balance a wallet stores for a key (0 when it stores none).
StoredBalance(w, key) == IF key \in DOMAIN w THEN w[key] ELSE 0

\* The replication calls the policy of a registered key asks for one value.
PolicyCalls(p, key, value) ==
    IF currencies[key].syncType = 1
    THEN << [fn |-> "setVariable", player |-> p,
             key |-> "currency_" \o key, value |-> value] >>
    ELSE IF currencies[key].syncType = 2
    THEN << [fn |-> "setOwnVariable", player |-> p,
             key |-> "currency_" \o key, value |-> value] >>
    ELSE << >>

\* C5: a successful wallet mutation issues no replication call for a None
\* currency, exactly one setVariable call for a Broadcast currency and
\* exactly one setOwnVariable call for an OwnerOnly currency, with the
\* currency's syncKey as channel and the new balance as value; setWallet does
\* so for each surviving entry.
C5_ReplicationFollowsPolicy ==
    /\ (last.op \in {"setCurrency", "changeCurrency"} /\ last.result = "true")
       => calls = PolicyCalls(last.player, last.key,
                              StoredBalance(wallet[last.player], last.key))
    /\ (last.op = "setWallet" /\ last.result = "true")
       => /\ \A k \in DOMAIN wallet[last.player] :
                 SelectSeq(calls, LAMBDA c : c.key = "currency_" \o k)
                     = PolicyCalls(last.player, k, wallet[last.player][k])
          /\ Len(calls) = Cardinality({k \in DOMAIN wallet[last.player] :
                                          currencies[k].syncType \in {1, 2}})

\* C6: setCurrency with a registered key and an integer amount returns true;
\* afterwards getCurrency(key) returns the amount, every other entry of the
\* wallet is unchanged, and the currencyUpdated event carries the balance
\* before the call as oldAmount and the argument as newAmount.
C6_SetBalance ==
    [][\A p \in Players, key \in Keys :
        (/\ last'.op = "setCurrency" /\ last'.player = p /\ last'.key = key
         /\ hasCurrency(key) /\ IsInteger(last'.amount))
        => /\ last'.result = "true"
           /\ GetBalanceReturns(wallet'[p], key, last'.amount)
           /\ \A k \in Keys \ {key} :
                  /\ (k \in DOMAIN wallet'[p]) = (k \in DOMAIN wallet[p])
                  /\ k \in DOMAIN wallet[p] => wallet'[p][k] = wallet[p][k]
           /\ Len(emitted') = 1
           /\ emitted'[1].event = "currencyUpdated"
           /\ emitted'[1].args[1] = p /\ emitted'[1].args[2] = key
           /\ GetBalanceReturns(wallet[p], key, emitted'[1].args[3])
           /\ emitted'[1].args[4] = last'.amount
      ]_vars

\* C7: changeCurrency with a registered key and an integer amount returns
\* true; afterwards getCurrency(key) returns the balance before the call (0 if
\* the key was absent) plus the amount, negative results included; every
\* other entry of the wallet is unchanged, and the currencyUpdated event
\* carries the prior balance as oldAmount and the sum as newAmount.
C7_AdjustBalance ==
    [][\A p \in Players, key \in Keys :
        (/\ last'.op = "changeCurrency" /\ last'.player = p /\ last'.key = key
         /\ hasCurrency(key) /\ IsInteger(last'.amount))
        => /\ last'.result = "true"
           /\ GetBalanceReturns(wallet'[p], key,
                                StoredBalance(wallet[p], key) + last'.amount)
           /\ IsInteger(StoredBalance(wallet'[p], key))
           /\ \A k \in Keys \ {key} :
                  /\ (k \in DOMAIN wallet'[p]) = (k \in DOMAIN wallet[p])
                  /\ k \in DOMAIN wallet[p] => wallet'[p][k] = wallet[p][k]
           /\ Len(emitted') = 1
           /\ emitted'[1].event = "currencyUpdated"
           /\ emitted'[1].args[1] = p /\ emitted'[1].args[2] = key
           /\ emitted'[1].args[3] = StoredBalance(wallet[p], key)
           /\ emitted'[1].args[4] = StoredBalance(wallet[p], key) + last'.amount
      ]_vars

\* C8 as claimed: every currencyUpdated event carries the reason "set" when
\* setCurrency emitted it and "adjust" when changeCurrency emitted it.
C8_ReasonSetOrAdjust ==
    \A i \in 1..Len(emitted) :
        emitted[i].event = "currencyUpdated"
        => /\ emitted[i].args[5] \in {"set", "adjust"}
           /\ last.op = "setCurrency" => emitted[i].args[5] = "set"
           /\ last.op = "changeCurrency" => emitted[i].args[5] = "adjust"

\* C8 as amended: every currencyUpdated event carries the name of the
\* function that emitted it as reason: "setCurrency" when setCurrency
\* emitted it and "changeCurrency" when changeCurrency emitted it.
C8_ReasonIsFunctionName ==
    \A i \in 1..Len(emitted) :
        emitted[i].event = "currencyUpdated"
        => /\ emitted[i].args[5] \in {"setCurrency", "changeCurrency"}
           /\ last.op \in {"setCurrency", "changeCurrency"}
           /\ last.op = "setCurrency" => emitted[i].args[5] = "setCurrency"
           /\ last.op = "changeCurrency" => emitted[i].args[5] = "changeCurrency"

\* C8 witness: setCurrency has just emitted a currencyUpdated event.
C8_Witness ==
    /\ last.op = "setCurrency" /\ last.result = "true"
    /\ Len(emitted) = 1 /\ emitted[1].event = "currencyUpdated"
    /\ emitted[1].args[4] = MaxNum

\* C9: setCurrency and changeCurrency with an unregistered key or a
\* non-integer amount return false, leave every wallet as it was, issue no
\* replication call and emit no event.
C9_RejectedCallChangesNothing ==
    [][(/\ last'.op \in {"setCurrency", "changeCurrency"}
        /\ (~hasCurrency(last'.key) \/ ~IsInteger(last'.amount)))
       => (/\ last'.result = "false"
           /\ wallet' = wallet
           /\ calls' = << >>
           /\ emitted' = << >>)]_vars

\* C9 witness: setCurrency with a non-integer amount for a registered
\* Broadcast currency the wallet holds has just returned false.
C9_Witness ==
    /\ last.op = "setCurrency" /\ last.result = "false"
    /\ hasCurrency(last.key) /\ ~IsInteger(last.amount)
    /\ currencies[last.key].syncType = SYNC_TYPE_EVERYONE
    /\ last.key \in DOMAIN wallet[last.player]

\* C10: setWallet with a plain object returns true, and the wallet afterwards
\* is exactly the entries of the argument whose key is registered and whose
\* value is an integer.
C10_ReplaceWalletFilters ==
    [][\A p \in Players :
        (last'.op = "setWallet" /\ last'.player = p /\ last'.newWallet.isObject)
        => LET props == last'.newWallet.props
               kept == {k \in DOMAIN props : hasCurrency(k) /\ IsInteger(props[k])}
           IN  /\ last'.result = "true"
               /\ wallet'[p] = [k \in kept |-> props[k]]
      ]_vars

\* C11: setWallet with an argument that is no plain object returns false,
\* leaves every wallet as it was, issues no replication call and emits no
\* walletReplaced event.
C11_MalformedWalletRejected ==
    [][(last'.op = "setWallet" /\ ~last'.newWallet.isObject)
       => (/\ last'.result = "false"
           /\ wallet' = wallet
           /\ calls' = << >>
           /\ emitted' = << >>)]_vars

\* C11 witness: setWallet with no plain object has just returned false on a
\* player whose wallet holds a replicated currency.
C11_Witness ==
    /\ last.op = "setWallet" /\ last.result = "false"
    /\ ~last.newWallet.isObject
    /\ \E k \in DOMAIN wallet[last.player] : currencies[k].syncType # SYNC_TYPE_NONE

\* C12: for a registered key absent from the wallet, changeCurrency(key, d1)
\* followed by changeCurrency(key, d2) leaves the balance that a single
\* setCurrency(key, d1 + d2) leaves on the same starting wallet.
C12_TwoAdjustsEqualOneSet ==
    [][\A p \in Players, key \in Keys :
        (/\ last.op = "changeCurrency" /\ last.result = "true"
         /\ last.player = p /\ last.key = key /\ ~last.hadKey
         /\ last'.op = "changeCurrency" /\ last'.player = p /\ last'.key = key
         /\ IsInteger(last'.amount))
        => LET start == [k \in (DOMAIN wallet[p]) \ {key} |-> wallet[p][k]]
               sum == NumAdd(last.amount, last'.amount)
               afterSet == IF SetCurrencyRejects(key, sum) THEN start
                           ELSE PropertySet(start, key, sum)
           IN  StoredBalance(wallet'[p], key) = StoredBalance(afterSet, key)
      ]_vars

\* C13: for every key that is not registered, getCurrency(key) of every
\* player returns 0, getCurrencyName returns "Invalid Currency",
\* getCurrencySyncType returns SYNC_TYPE_NONE, getCurrencySyncKey returns
\* null, the registry holds no record for it and hasCurrency is false.
C13_UnregisteredDefaults ==
    \A key \in Keys \cup {"", NonString} :
        ~hasCurrency(key)
        => /\ \A p \in joined : GetBalanceReturns(wallet[p], key, 0)
           /\ getCurrencyName(key) = "Invalid Currency"
           /\ getCurrencySyncType(key) = 0
           /\ getCurrencySyncKey(key) = NullValue
           /\ key \notin DOMAIN currencies

C15_RegistryOnlyGrows ==
    [][\A key \in DOMAIN currencies :
        /\ key \in DOMAIN currencies'
        /\ currencies'[key] = currencies[key]]_vars

\* C15 witness: with "gold" registered and held in a wallet, another
\* definition of "gold" with a different syncType has just been attempted.
C15_Witness ==
    /\ last.op = "addCurrency" /\ last.key = "gold" /\ last.name = "Gold"
    /\ last.syncType \in {0, 1, 2}
    /\ hasCurrency("gold") /\ currencies["gold"].syncType # last.syncType
    /\ \E p \in joined : "gold" \in DOMAIN wallet[p]

\* C16: on a joined player no wallet function (getCurrency, setWallet,
\* setCurrency, changeCurrency) raises an error, whatever its arguments.
C16_WalletFunctionsNeverThrow ==
    last.op \in WalletOps \cup {"getCurrency"} => last.result # "TypeError"

\* Every element of the sequence part occurs in the sequence whole.
AllIssued(part, whole) ==
    \A i \in DOMAIN part : \E j \in DOMAIN whole : whole[j] = part[i]

\* C17: each successful setCurrency, changeCurrency and setWallet emits
\* exactly one event, and when it is delivered (the emit is the last
\* statement, so in the state the step leaves) the wallet holds the new
\* value: getCurrency returns the newAmount of currencyUpdated, the wallet is
\* the newWallet of walletReplaced, and the replication calls the policy
\* asks for have been issued.
C17_NotificationEmittedLast ==
    [][(last'.op \in WalletOps /\ last'.result = "true")
       => LET p == last'.player
              e == emitted'[1]
          IN  /\ Len(emitted') = 1
              /\ last'.op = "setWallet"
                   => /\ e.event = "walletReplaced"
                      /\ e.args[3] = wallet'[p]
                      /\ \A k \in DOMAIN wallet'[p] :
                             AllIssued(PolicyCalls(p, k, wallet'[p][k]), calls')
              /\ last'.op # "setWallet"
                   => /\ e.event = "currencyUpdated"
                      /\ GetBalanceReturns(wallet'[p], e.args[2], e.args[4])
                      /\ calls' = PolicyCalls(p, e.args[2], e.args[4])]_vars

\* C18: for every player and every currency replicated to everyone or to
\* the player, once a value has been replicated under the currency's
\* syncKey, the value last replicated is what getCurrency returns.
C18_ReplicatedIsBalance ==
    \A p \in joined : \A key \in DOMAIN currencies :
        (/\ currencies[key].syncType \in {SYNC_TYPE_EVERYONE, SYNC_TYPE_PLAYER}
         /\ currencies[key].syncKey \in DOMAIN replicated[p])
        => GetBalanceReturns(wallet[p], key, replicated[p][currencies[key].syncKey])

\* C19: setWallet, setCurrency or changeCurrency of one player, succeeding
\* or not, leaves the wallet and the entity data of every other player as
\* they were, issues its replication calls on that player only and names
\* that player in the event it emits.
C19_OtherPlayersUntouched ==
    [][last'.op \in WalletOps
       => /\ \A q \in Players \ {last'.player} :
                 wallet'[q] = wallet[q] /\ replicated'[q] = replicated[q]
          /\ \A i \in DOMAIN calls' : calls'[i].player = last'.player
          /\ \A i \in DOMAIN emitted' : emitted'[i].args[1] = last'.player]_vars

\* C19 witness: a wallet function of one player has issued a replication
\* call and emitted an event while another joined player holds a replicated
\* balance.
C19_Witness ==
    /\ last.op \in WalletOps /\ last.result = "true"
    /\ calls # << >> /\ emitted # << >>
    /\ \E q \in joined \ {last.player} :
           wallet[q] # EmptyObject /\ replicated[q] # EmptyObject

====
